---- MODULE Spec2Model ----
(***************************************************************************)
(* powerscan: a power-spectrum scanner for a SoapySDR receiver.            *)
(*                                                                         *)
(* The model follows the last revision held in src/powerscan.c (the text   *)
(* from line 1086 on): main, scan, retune, flush_data_after_config_change, *)
(* receive_block, process_buffer, handle_fft_out, the planner              *)
(* (initialise_configuration, plan_tuning, plan_fft) and the signal        *)
(* handler.  The SDR driver and the FFT primitive are the environment:     *)
(* what they return is chosen nondeterministically from small sets.        *)
(***************************************************************************)
EXTENDS Integers, Sequences, FiniteSets, TLC

(***************************************************************************)
(* Program constants                                                       *)
(***************************************************************************)
FFT_MAX_BITS == 16

MIN_DWELL_TIME == 100000

MAX_SAMPLES == 2 ^ FFT_MAX_BITS

\* crop ratios are floats; the model keeps one as <<num, den, dir>>: the
\* rational num/den that was written, and dir, the sign of the error of its
\* float representation (0 when num/den is a float exactly).
MAX_CROP_RATIO == <<3, 5, 1>>

DEFAULT_CROP_RATIO == <<1, 4, 0>>

DEFAULT_SCAN_TIME == 10

MIN_FFT_SIZE == 4

FLUSH_READS == 3

\* float has a 24 bit significand
FLT_MANT_DIG == 24

(***************************************************************************)
(* Bounds of the model                                                     *)
(***************************************************************************)
\* plan_fft pins fft_size to 8192 whatever the resolution asks for.  The
\* model pins it too, to a size whose arrays can be enumerated; the sample
\* rates of the devices below are chosen against it, so that the resolution
\* sample_rate / fft_size is truncated the way it is for 8192.
PINNED_FFT_SIZE == 16

\* signals delivered to the process during one run
MaxSignals == 2

\* blocks the stream delivers during one run; once they are used up every
\* read times out (returns a negative count)
MaxReads == 4

\* repetitions a continuous scan is followed through
MaxRepetitions == 1

(***************************************************************************)
(* C arithmetic                                                            *)
(***************************************************************************)
Abs(x) == IF x < 0 THEN -x ELSE x

Sign(x) == IF x < 0 THEN -1 ELSE 1

\* integer division as C does it: truncation toward zero.  A division by
\* zero either traps (the actions that divide say so) or, on a processor
\* that does not trap, yields 0.
CDiv(a, b) == IF b = 0 THEN 0 ELSE Sign(a) * Sign(b) * (Abs(a) \div Abs(b))

FloorDiv(a, b) == a \div b

CeilDiv(a, b) == -((-a) \div b)

\* the limits of the 32-bit int
INT_MAX == 2147483647

INT_MIN == -INT_MAX - 1

\* 1000000 * s in the 32-bit int arithmetic of the expression, for an int s:
\* the product reduced modulo 2^32, worked out in 16-bit limbs
\* (1000000 = 15 * 65536 + 16960)
MillionTimes(s) ==
    LET sh   == Abs(s) \div 65536
        sl   == Abs(s) % 65536
        low  == 16960 * sl
        mid  == (15 * sl + 16960 * sh + low \div 65536) % 65536
        v    == IF mid >= 32768 THEN (mid - 65536) * 65536 + (low % 65536)
                ELSE mid * 65536 + (low % 65536)
    IN  IF s >= 0 \/ v = INT_MIN THEN v ELSE -v

\* (int)ceil(x) where x is the double a / b: the quotient's ceiling, or for
\* an infinite or undefined quotient what the conversion instruction gives.
\* A saturating conversion gives INT_MAX for +inf and 0 for NaN; the
\* conversion that gives INT_MIN for both is found on the processors where
\* the integer division by zero that follows in plan_fft traps.
IntCeilQuotient(a, b) ==
    IF b # 0 THEN CeilDiv(a, b) ELSE IF a > 0 THEN INT_MAX ELSE 0

\* floor(crop * x) and ceil(x * (1.0 - crop)) for an integer x >= 0, the
\* products being taken in double on the float crop: the float's error moves
\* the product off an integer it would hit exactly, and is too small to
\* carry it across any other integer.
FloorCropTimes(crop, x) ==
    LET exact == FloorDiv(crop[1] * x, crop[2])
        whole == (crop[1] * x) % crop[2] = 0
    IN  IF crop[3] < 0 /\ whole /\ crop[1] * x > 0 THEN exact - 1 ELSE exact

CeilTimesOneMinusCrop(crop, x) ==
    LET num   == (crop[2] - crop[1]) * x
        exact == CeilDiv(num, crop[2])
        whole == num % crop[2] = 0
    IN  IF crop[3] < 0 /\ whole /\ x > 0 THEN exact + 1 ELSE exact

\* crop > MAX_CROP_RATIO, crop < 0: the comparisons of initialise_configuration
CropAbove(crop, lim) ==
    \/ crop[1] * lim[2] > lim[1] * crop[2]
    \/ crop[1] * lim[2] = lim[1] * crop[2] /\ crop[3] > 0

CropNegative(crop) == crop[1] < 0

\* MAX_CROP_RATIO is a double; assigned to the float field it is rounded
\* and stays above 0.6, so the clamp compares greater again and is stable.
ClampCrop(crop) ==
    IF CropAbove(crop, <<MAX_CROP_RATIO[1], MAX_CROP_RATIO[2], 0>>)
    THEN MAX_CROP_RATIO
    ELSE IF CropNegative(crop) THEN <<0, 1, 0>> ELSE crop

\* float addition: the sum rounded to FLT_MANT_DIG significant bits, ties to
\* even.  Magnitudes are counted in units of one least significant bit.
RECURSIVE Ulp(_, _)
Ulp(v, q) == IF v < q * (2 ^ FLT_MANT_DIG) THEN q ELSE Ulp(v, 2 * q)

RoundFloat(v) ==
    LET q    == Ulp(v, 1)
        r    == v % q
        down == v - r
    IN  IF 2 * r < q THEN down
        ELSE IF 2 * r > q THEN down + q
        ELSE IF (down \div q) % 2 = 0 THEN down ELSE down + q

FloatAdd(a, b) == RoundFloat(a + b)

(***************************************************************************)
(* Inputs: the command line and the SDR device found at run time           *)
(***************************************************************************)
Opt(o, a) == [opt |-> o, arg |-> a]

\* An argument read by frequency_from_str is a text: the sequence of its
\* characters.  The arguments of the options read by atol and atof are
\* given by the value read.
Digits == <<"0", "1", "2", "3", "4", "5", "6", "7", "8", "9">>

\* the decimal text of a number that is not negative, as typed by the user
RECURSIVE Decimal(_)
Decimal(n) ==
    IF n < 10 THEN <<Digits[n + 1]>>
    ELSE Decimal(n \div 10) \o <<Digits[(n % 10) + 1]>>

BandStart == 100000

\* a rate the transform size divides, and one it does not
WholeRate == PINNED_FFT_SIZE

OddRate == 2 * PINNED_FFT_SIZE + PINNED_FFT_SIZE \div 2 + 1

Device(p, r, c, s, a) ==
    [present |-> p, rates |-> r, channels |-> c, stream_ok |-> s, alloc_ok |-> a]

GoodDevice == Device(TRUE, <<WholeRate>>, 1, TRUE, TRUE)

OddDevice == Device(TRUE, <<WholeRate, OddRate, PINNED_FFT_SIZE \div 2>>, 1, TRUE, TRUE)

Scenario(argv, dev) == [argv |-> argv, device |-> dev]

\* Frequencies as they may be typed: the examples of the usage text, each
\* suffix, and texts with other characters after the number or after the
\* suffix.  The characters are those strtod reads as a decimal number
\* without an exponent, and letters it does not read at all; the fractions
\* are exact in binary.
FrequencyTexts ==
    { <<"1", "0", "0">>, <<"1", "k">>, <<"2", ".", "5", "M">>, <<"1", "g">>,
      <<"1", "K">>, <<"3", "m">>, <<"2", "G">>, <<"2", ".", "5">>,
      <<".", "5", "k">>, <<"1", ".">>, <<"-", "5">>,
      <<>>, <<"k">>, <<".">>, <<"1", "z">>, <<"1", " ">>,
      <<"1", "k", "H", "z">>, <<"1", "0", "M", "H", "z">>, <<"1", "k", "k">>,
      <<"1", "k", " ">> }

Scenarios ==
    { \* runs that end before any scan
      Scenario(<<Opt("h", 0)>>, GoodDevice),
      Scenario(<<Opt("d", "help")>>, GoodDevice),
      Scenario(<<Opt("s", Decimal(BandStart)), Opt("R", Decimal(WholeRate))>>, OddDevice),
      Scenario(<<Opt("e", Decimal(BandStart))>>, GoodDevice),
      Scenario(<<Opt("s", Decimal(BandStart)), Opt("C", 1)>>, GoodDevice),
      Scenario(<<Opt("s", Decimal(BandStart))>>, Device(FALSE, <<>>, 0, FALSE, FALSE)),
      Scenario(<<Opt("s", Decimal(BandStart))>>, Device(TRUE, <<WholeRate>>, 1, FALSE, TRUE)),
      Scenario(<<Opt("s", Decimal(BandStart))>>, Device(TRUE, <<WholeRate>>, 1, TRUE, FALSE)),
      Scenario(<<Opt("s", Decimal(BandStart))>>,
               Device(TRUE, <<PINNED_FFT_SIZE \div 2>>, 1, TRUE, TRUE)),
      \* scans: a single sweep of the default band (the end given is not
      \* above the start), a continuous scan, two sweeps at the odd rate
      Scenario(<<Opt("s", Decimal(BandStart)), Opt("e", Decimal(BandStart - 1)), Opt("1", 0)>>, GoodDevice),
      Scenario(<<Opt("s", Decimal(BandStart)), Opt("e", Decimal(BandStart + 2 * WholeRate))>>, GoodDevice),
      Scenario(<<Opt("s", Decimal(BandStart)), Opt("e", Decimal(BandStart + 2 * OddRate)), Opt("l", 2)>>,
               OddDevice) }
    \cup
    \* runs that read one frequency and end for want of a start frequency
    { Scenario(<<Opt("e", text)>>, GoodDevice) : text \in FrequencyTexts }

\* |fftw_out[k]| of one executed transform, in float units: what the FFT
\* primitive produced for the frame.  In "ramp" and "loud" every bin has a
\* magnitude of its own; "loud" is large enough for sums to be rounded.
Spectra == {"ramp", "loud"}

Magnitude(sp, k) == IF sp = "ramp" THEN k + 1 ELSE (2 ^ FLT_MANT_DIG) - 1 - k

\* sample pairs one readStream call can return
BlockSizes == {0, PINNED_FFT_SIZE \div 2, PINNED_FFT_SIZE}

(***************************************************************************)
(* State                                                                   *)
(***************************************************************************)
VARIABLES
    config,          \* ProgramConfiguration config
    signals_caught,  \* int signals_caught
    main,            \* the main thread: where it is, and its locals
    env,             \* argv, the device, the signal handlers, the stream
    frame,           \* the latest call of handle_fft_out and the sweep's writes
    web              \* webserver.cpp: static Server* server, and the web thread

vars == <<config, signals_caught, main, env, frame, web>>

\* static storage: every field is zero until default_parameters runs
ZeroConfiguration ==
    [ sdr_name |-> "", sdr_channel |-> 0, gain |-> 0,
      start_frequency |-> 0, end_frequency |-> 0, frequency_resolution |-> 0,
      requested_sample_rate |-> 0, repetition_limit |-> 0, scan_time |-> 0,
      crop_ratio |-> <<0, 1, 0>>, verbose |-> FALSE,
      device |-> FALSE, channel_count |-> 0, sample_rates |-> <<>>,
      sample_rate |-> 0, stream |-> FALSE,
      tuning_count |-> 0, dwell_time |-> 0, tuning_start |-> 0,
      tuning_bandwidth |-> 0, current_frequency |-> 0,
      fft_size |-> 0, fft_fill |-> 0,
      power_accumulation |-> <<>>, accumulation_count |-> 0, power_buckets |-> 0,
      last_time |-> 0, first_time |-> 0, web_port |-> 0 ]

\* No thread has been made and server is null.  thread is the place of the
\* web thread in run_webserver; stop_called and stopped record that
\* stop_webserver was called and that it called Server::stop.
NoWebThread ==
    [ thread |-> "none", server |-> FALSE, listening |-> FALSE,
      stop_called |-> FALSE, stopped |-> FALSE ]

NoFrame ==
    [ handled |-> FALSE, accepted |-> FALSE, tuning |-> 0, spectrum |-> "",
      lowest_bin |-> 0, bin_count |-> 0, sweep |-> {},
      first |-> <<>>, uniform |-> TRUE,
      pairs |-> 0, delivered |-> 0, from |-> 0, mixed |-> FALSE,
      framed |-> {}, failed |-> FALSE ]

Init ==
    /\ config = ZeroConfiguration
    /\ signals_caught = 0
    /\ main = [ pc |-> "gather", initialised |-> "", repetition |-> 0,
                i |-> 0, frequency |-> 0, receive_end_time |-> 0,
                flush_i |-> 0, samples |-> 0, scan_result |-> TRUE,
                exit_code |-> -1,
                \* signals_caught as it was when the tuning in progress began
                caught_at_tuning |-> 0 ]
    /\ \E sc \in Scenarios :
          env = [ argv |-> sc.argv, device |-> sc.device,
                  handlers |-> FALSE, divided_by_zero |-> FALSE,
                  reads |-> 0, sample_rate |-> 0, frequency |-> 0,
                  invalid_frequencies |-> 0 ]
    /\ frame = NoFrame
    /\ web = NoWebThread

(***************************************************************************)
(* gather_parameters                                                       *)
(***************************************************************************)
default_parameters(pc) ==
    [ZeroConfiguration EXCEPT !.crop_ratio = DEFAULT_CROP_RATIO,
                              !.scan_time = DEFAULT_SCAN_TIME]

\* strtod on a text of the characters above: an optional sign, digits, an
\* optional point and more digits, at least one digit in all.  The value
\* is num / den; endptr is the place of the first character not read, and
\* is 1, the start of the text, when no number was found.
IsDigit(c) == \E d \in DOMAIN Digits : Digits[d] = c

DigitValue(c) == (CHOOSE d \in DOMAIN Digits : Digits[d] = c) - 1

\* the digits from place i on, appended to the number v read so far
RECURSIVE ReadDigits(_, _, _)
ReadDigits(cp, i, v) ==
    IF i <= Len(cp) /\ IsDigit(cp[i])
    THEN ReadDigits(cp, i + 1, 10 * v + DigitValue(cp[i]))
    ELSE [v |-> v, i |-> i]

\* the number of `before` digits ahead of the point and `places` after it,
\* all of them read into all.v
Number(cp, before, places, all) ==
    IF before + places = 0
    THEN [num |-> 0, den |-> 1, endptr |-> 1]
    ELSE [num    |-> IF cp[1] = "-" THEN -all.v ELSE all.v,
          den    |-> 10 ^ places,
          endptr |-> all.i]

\* the digits from place first on having been read into whole
Fraction(cp, first, whole, rest) ==
    IF whole.i <= Len(cp) /\ cp[whole.i] = "."
    THEN Number(cp, whole.i - first, rest.i - whole.i - 1, rest)
    ELSE Number(cp, whole.i - first, 0, whole)

Mantissa(cp, first, whole) ==
    Fraction(cp, first, whole, ReadDigits(cp, whole.i + 1, whole.v))

strtod(cp) ==
    IF Len(cp) >= 1 /\ cp[1] \in {"-", "+"}
    THEN Mantissa(cp, 2, ReadDigits(cp, 2, 0))
    ELSE Mantissa(cp, 1, ReadDigits(cp, 1, 0))

\* the switch on *endptr, c being that character and "" the terminating
\* NUL: the value returned, the double converted to Frequency, and whether
\* "Invalid frequency specification" was printed
Suffix(n, c) ==
    IF n.endptr = 1 \/ c \notin {"k", "K", "m", "M", "g", "G", ""}
    THEN [value |-> 0, invalid |-> TRUE]
    ELSE [value   |-> CDiv(n.num * (CASE c \in {"k", "K"} -> 1000
                                      [] c \in {"m", "M"} -> 1000000
                                      [] c \in {"g", "G"} -> 1000000000
                                      [] OTHER -> 1),
                           n.den),
          invalid |-> FALSE]

EndChar(cp, n) == Suffix(n, IF n.endptr <= Len(cp) THEN cp[n.endptr] ELSE "")

\* Only the character at endptr is looked at.
frequency_from_str(cp) == EndChar(cp, strtod(cp))

\* The literal grammar <double>[kKmMgG]: what frequency_from_str returns
\* for a number followed by nothing or by exactly one suffix, and 0 with a
\* report for every other text.
LiteralOnly(cp, n, f) ==
    IF n.endptr < Len(cp) THEN [value |-> 0, invalid |-> TRUE] ELSE f

FrequencyLiteral(cp) == LiteralOnly(cp, strtod(cp), frequency_from_str(cp))

\* the options of the getopt string "vd:C:a:g:s:e:r:c:1l:t:h?"
KnownOptions == {"v", "d", "C", "a", "g", "s", "e", "r", "c", "1", "l", "t", "h", "?"}

\* the options whose argument frequency_from_str reads
StoreFrequency(pc, opt, f) ==
    [ok |-> TRUE,
     pc |-> CASE opt = "s" -> [pc EXCEPT !.start_frequency = f.value]
              [] opt = "e" -> [pc EXCEPT !.end_frequency = f.value]
              [] opt = "r" -> [pc EXCEPT !.frequency_resolution = f.value]
              [] opt = "R" -> [pc EXCEPT !.requested_sample_rate = f.value],
     invalid |-> IF f.invalid THEN 1 ELSE 0]

\* the other options: the configuration after one of them, or pc itself
\* where the switch returns false
StoreOption(pc, opt, arg) ==
    CASE opt = "v" -> [pc EXCEPT !.verbose = TRUE]
      [] opt = "d" -> [pc EXCEPT !.sdr_name = arg]
      [] opt = "C" -> [pc EXCEPT !.sdr_channel = arg]
      [] opt = "g" -> [pc EXCEPT !.gain = arg]
      [] opt = "t" -> [pc EXCEPT !.scan_time = arg]
      [] opt = "c" -> [pc EXCEPT !.crop_ratio = arg]
      [] opt = "1" -> [pc EXCEPT !.repetition_limit = 1]
      [] opt = "l" -> [pc EXCEPT !.repetition_limit = arg]
      [] OTHER     -> pc

\* one turn of the option loop, opt being what getopt returned: the
\* configuration after it, whether the loop goes on, and how many
\* frequencies were reported invalid
Switch(pc, opt, arg) ==
    IF opt \in {"s", "e", "r", "R"}
    THEN StoreFrequency(pc, opt, frequency_from_str(arg))
    ELSE [ok |-> IF opt = "d" THEN arg # "help"
                 ELSE opt \in {"v", "C", "g", "t", "c", "1", "l"},
          pc |-> StoreOption(pc, opt, arg),
          invalid |-> 0]

GatherOption(pc, o) == Switch(pc, IF o.opt \in KnownOptions THEN o.opt ELSE "?", o.arg)

RECURSIVE GatherOptions(_, _, _)
\* the loop after a turn r of it
GatherRest(r, argv, invalid) ==
    IF r.ok THEN GatherOptions(r.pc, argv, invalid + r.invalid)
    ELSE [r EXCEPT !.invalid = invalid]

GatherOptions(pc, argv, invalid) ==
    IF argv = <<>> THEN [ok |-> TRUE, pc |-> pc, invalid |-> invalid]
    ELSE GatherRest(GatherOption(pc, Head(argv)), Tail(argv), invalid)

gather_parameters(pc, argv) == GatherOptions(default_parameters(pc), argv, 0)

(***************************************************************************)
(* The planner: initialise_configuration and what it calls                 *)
(***************************************************************************)
\* the highest sample rate not greater than requested
RECURSIVE SelectRate(_, _, _)
SelectRate(rate, requested, rates) ==
    IF rates = <<>> THEN rate
    ELSE LET r == Head(rates)
         IN  SelectRate(IF r > rate /\ (requested = 0 \/ r <= requested) THEN r ELSE rate,
                        requested, Tail(rates))

select_sample_rate(pc) ==
    [pc EXCEPT !.sample_rate = SelectRate(pc.sample_rate, pc.requested_sample_rate,
                                          pc.sample_rates)]

\* (Frequency)(sample_rate * (1 - crop_ratio)): the double product truncated
DefaultBandwidth(pc) ==
    LET num   == (pc.crop_ratio[2] - pc.crop_ratio[1]) * pc.sample_rate
        exact == FloorDiv(num, pc.crop_ratio[2])
        whole == num % pc.crop_ratio[2] = 0
    IN  IF pc.crop_ratio[3] > 0 /\ whole /\ num > 0 THEN exact - 1 ELSE exact

\* the band, were it to begin at the start frequency given
DefaultBand_FromStart(pc) ==
    IF pc.end_frequency <= 0
    THEN [pc EXCEPT !.end_frequency = pc.start_frequency + DefaultBandwidth(pc)]
    ELSE pc

\* the band when no usable end frequency was given
DefaultBand(pc) ==
    IF pc.end_frequency <= 0
    THEN LET end == pc.start_frequency + CDiv(DefaultBandwidth(pc), 2)
         IN  [pc EXCEPT !.end_frequency = end,
                        !.start_frequency = end - DefaultBandwidth(pc)]
    ELSE pc

DefaultResolution(pc) ==
    LET r == FloorDiv(pc.sample_rate, MAX_SAMPLES) IN IF r = 0 THEN 1 ELSE r

\* the resolution initialise_configuration settles on before planning
InitialResolution(pc) ==
    IF pc.frequency_resolution # 0
       /\ FloorDiv(pc.sample_rate, pc.frequency_resolution) > MAX_SAMPLES
    THEN DefaultResolution(pc)
    ELSE IF pc.frequency_resolution = 0 THEN DefaultResolution(pc)
    ELSE pc.frequency_resolution

\* the scan, were nothing added to the band for the cropped edges
TotalScan_NoOverscan(pc) == pc.end_frequency - pc.start_frequency

TotalScan(pc) ==
    pc.end_frequency - pc.start_frequency + FloorCropTimes(pc.crop_ratio, pc.sample_rate)

TuningBandwidth(pc) == CeilTimesOneMinusCrop(pc.crop_ratio, pc.sample_rate)

DwellTime(scan_time, tuning_count) ==
    LET d == CDiv(MillionTimes(scan_time), tuning_count)
    IN  IF d < MIN_DWELL_TIME THEN MIN_DWELL_TIME ELSE d

plan_tuning(pc) ==
    LET bw    == TuningBandwidth(pc)
        count == IntCeilQuotient(TotalScan(pc), bw)
    IN  [pc EXCEPT !.tuning_bandwidth = bw,
                   !.tuning_start = pc.start_frequency + CDiv(bw, 2),
                   !.tuning_count = count,
                   !.dwell_time = DwellTime(pc.scan_time, count)]

\* "Invalid channel selected", or the driver refusing the stream
setup_stream(pc, dev) ==
    LET counted == [pc EXCEPT !.channel_count = dev.channels]
    IN  IF pc.sdr_channel < 0 \/ pc.sdr_channel >= dev.channels
        THEN [ok |-> FALSE, pc |-> counted]
        ELSE IF ~dev.stream_ok THEN [ok |-> FALSE, pc |-> counted]
        ELSE [ok |-> TRUE, pc |-> [counted EXCEPT !.stream = TRUE]]

\* the size plan_fft leaves in fft_size: the quotient is overwritten
FftSize(pc) ==
    LET by_resolution == CDiv(pc.sample_rate, pc.frequency_resolution)
        pinned        == PINNED_FFT_SIZE
    IN  IF pinned < MIN_FFT_SIZE THEN MIN_FFT_SIZE ELSE pinned

FftResolution(pc) == CDiv(pc.sample_rate, FftSize(pc))

\* plan_fft divides by the resolution it has just recomputed
PlanFftDefined(pc) == FftResolution(pc) # 0

PowerBuckets(pc) ==
    LET res == FftResolution(pc)
    IN  CDiv(pc.end_frequency - pc.start_frequency + res - 1, res)

plan_fft(pc, dev) ==
    LET buckets == PowerBuckets(pc)
        planned == [pc EXCEPT !.fft_size = FftSize(pc),
                              !.fft_fill = 0,
                              !.frequency_resolution = FftResolution(pc),
                              !.power_buckets = buckets,
                              !.accumulation_count = 0]
    IN  IF dev.alloc_ok /\ buckets >= 0
        THEN [ok |-> TRUE,
              pc |-> [planned EXCEPT !.power_accumulation = [b \in 0..(buckets - 1) |-> 0]]]
        ELSE [ok |-> FALSE, pc |-> planned]

\* The result of initialise_configuration: "ok" or "failed" (it returned
\* false), the configuration as it stood then, and whether it divided by
\* zero on the way.
initialise_configuration(pc, dev) ==
    IF ~dev.present THEN [result |-> "failed", fault |-> FALSE, pc |-> pc]
    ELSE
    LET opened  == [pc EXCEPT !.device = TRUE, !.sample_rates = dev.rates]
        rated   == select_sample_rate(opened)
        cropped == [rated EXCEPT !.crop_ratio = ClampCrop(rated.crop_ratio)]
    IN  IF cropped.start_frequency <= 0
        THEN [result |-> "failed", fault |-> FALSE, pc |-> cropped]
        ELSE
        LET ended == IF cropped.end_frequency > 0
                        /\ cropped.end_frequency <= cropped.start_frequency
                     THEN [cropped EXCEPT !.end_frequency = 0] ELSE cropped
            band  == DefaultBand(ended)
            fine  == [band EXCEPT !.frequency_resolution = InitialResolution(band)]
        IN  LET tuned  == plan_tuning(fine)
                stream == setup_stream(tuned, dev)
            IN  IF ~stream.ok
                THEN [result |-> "failed", fault |-> FALSE, pc |-> stream.pc]
                ELSE LET fft == plan_fft(stream.pc, dev)
                     IN  [result |-> IF fft.ok THEN "ok" ELSE "failed",
                          fault  |-> ~PlanFftDefined(stream.pc),
                          pc     |-> fft.pc]

(***************************************************************************)
(* handle_fft_out                                                          *)
(***************************************************************************)
LowestFrequencyRetained(pc) == pc.current_frequency - CDiv(pc.tuning_bandwidth, 2)

LowestBin(pc) ==
    CDiv(LowestFrequencyRetained(pc) - pc.start_frequency, pc.frequency_resolution)

BinCount(pc) == CDiv(pc.tuning_bandwidth, pc.frequency_resolution)

\* the test, were it to look at the lower end of the range only
FrameFits_LowerOnly(pc) == ~(LowestBin(pc) < 0)

\* the frame is dropped unless its bins lie inside the accumulator
FrameFits(pc) ==
    ~(LowestBin(pc) < 0 \/ LowestBin(pc) + BinCount(pc) > pc.power_buckets)

\* fft_power[s]: fft_power[s-1] = |fftw_out[s]| was stored for s in
\* 1..fft_size-1; a slot past those holds whatever the memory held.
FftPower(pc, sp, s, stale) ==
    IF s < pc.fft_size - 1 THEN Magnitude(sp, s + 1) ELSE stale

\* what fft_power slots that were never written may hold
StaleValues(pc) == IF BinCount(pc) > pc.fft_size - 1 THEN {0, 1} ELSE {0}

\* power_accumulation[b] as the addition reads it; outside the array it
\* reads the memory next to it
AccumulatorAt(pc, b) ==
    IF b \in DOMAIN pc.power_accumulation THEN pc.power_accumulation[b] ELSE 0

\* the loop, were it to store each power instead of adding it
Accumulate_Overwrite(pc, sp, stale) ==
    [b \in LowestBin(pc)..(LowestBin(pc) + BinCount(pc) - 1) |->
        FftPower(pc, sp, b - LowestBin(pc), stale)]
    @@ pc.power_accumulation

\* power_accumulation[lowest_bin+s] += fft_power[s] for s in 0..bin_count-1
Accumulate(pc, sp, stale) ==
    [b \in LowestBin(pc)..(LowestBin(pc) + BinCount(pc) - 1) |->
        FloatAdd(AccumulatorAt(pc, b), FftPower(pc, sp, b - LowestBin(pc), stale))]
    @@ pc.power_accumulation

\* handle_fft_out, were it to count the frames it drops
handle_fft_out_CountsDropped(pc, sp, stale) ==
    IF FrameFits(pc)
    THEN [pc EXCEPT !.power_accumulation = Accumulate(pc, sp, stale),
                    !.accumulation_count = @ + 1]
    ELSE [pc EXCEPT !.accumulation_count = @ + 1]

handle_fft_out(pc, sp, stale) ==
    IF FrameFits(pc)
    THEN [pc EXCEPT !.power_accumulation = Accumulate(pc, sp, stale),
                    !.accumulation_count = @ + 1]
    ELSE pc

\* the record kept of the call: which tuning of the sweep it was made in,
\* the transform it was given, the bins it computed and whether it wrote
\* them; the bins written so far in the sweep, tuning by tuning; the first
\* frame accumulated (its frequency, its transform and what the slot of
\* fft_power it left unwritten held), and whether every frame accumulated
\* since was the same; the pairs stored in fftw_in and the
\* frames delivered since the program began; the frequency the oldest pair
\* now in fftw_in was received at (0 when fftw_in is empty), and whether the
\* frame held pairs received at another frequency than current_frequency;
\* the tunings of the sweep that completed a frame, and whether a retune or
\* a block read of the sweep has failed
FrameRecord(pc, sp, tuning, stale) ==
    [ handled    |-> TRUE,
      accepted   |-> FrameFits(pc),
      tuning     |-> tuning,
      spectrum   |-> sp,
      lowest_bin |-> LowestBin(pc),
      bin_count  |-> BinCount(pc),
      sweep      |-> IF FrameFits(pc)
                     THEN frame.sweep \cup {<<tuning, LowestBin(pc), BinCount(pc)>>}
                     ELSE frame.sweep,
      first      |-> IF FrameFits(pc) /\ frame.first = <<>>
                     THEN <<pc.current_frequency, sp, stale>> ELSE frame.first,
      uniform    |-> IF FrameFits(pc) /\ frame.first # <<>>
                     THEN frame.uniform /\ frame.first = <<pc.current_frequency, sp, stale>>
                     ELSE frame.uniform,
      pairs      |-> frame.pairs + (pc.fft_size - pc.fft_fill),
      delivered  |-> frame.delivered + 1,
      from       |-> 0,
      mixed      |-> pc.fft_fill > 0 /\ frame.from # pc.current_frequency,
      framed     |-> frame.framed \cup {tuning},
      failed     |-> frame.failed ]

(***************************************************************************)
(* The environment: the stream and the signals                             *)
(***************************************************************************)
\* the time a successful read reports (the buffer's timestamp or the clock):
\* the time of the read before it, or a dwell later
ReadTimes(pc) == { pc.last_time, pc.last_time + pc.dwell_time }

\* the same when every read reports a later time than the one before it
IncreasingTimes(pc) == { pc.last_time + (pc.dwell_time \div 2) }

StreamHasData == env.reads < MaxReads

Running == main.pc \notin {"exited", "killed"}

\* interrupt_request, run by the handler of SIGINT, SIGTERM and SIGQUIT
interrupt_request == signals_caught' = signals_caught + 1

Interrupt ==
    /\ env.handlers
    /\ Running
    /\ signals_caught < MaxSignals
    /\ interrupt_request
    /\ UNCHANGED <<config, main, env, frame, web>>

(***************************************************************************)
(* main                                                                    *)
(***************************************************************************)
UsageExitCode == 0

ExitCode == 0

\* the status of a process killed by SIGFPE
FaultStatus == 136

GatherParameters ==
    /\ main.pc = "gather"
    /\ LET r == gather_parameters(config, env.argv)
       IN  /\ config' = r.pc
           /\ main' = [main EXCEPT !.pc = IF r.ok THEN "initialise" ELSE "usage"]
           /\ env' = [env EXCEPT !.invalid_frequencies = r.invalid]
    /\ UNCHANGED <<signals_caught, frame, web>>

InitialiseConfiguration ==
    /\ main.pc = "initialise"
    /\ LET r == initialise_configuration(config, env.device)
       IN  /\ config' = r.pc
           /\ \/ /\ r.result = "ok"
                 /\ main' = [main EXCEPT !.pc = "loop", !.initialised = "ok",
                                         !.repetition = 0]
                 /\ env' = [env EXCEPT !.handlers = TRUE, !.divided_by_zero = r.fault]
              \/ /\ r.result = "failed"
                 /\ main' = [main EXCEPT !.pc = "usage", !.initialised = "failed"]
                 /\ env' = [env EXCEPT !.divided_by_zero = r.fault]
              \/ /\ r.fault
                 /\ main' = [main EXCEPT !.pc = "killed", !.exit_code = FaultStatus]
                 /\ env' = [env EXCEPT !.divided_by_zero = TRUE]
    /\ UNCHANGED <<signals_caught, frame, web>>

\* usage(0): the help text, then exit
Usage ==
    /\ main.pc = "usage"
    /\ main' = [main EXCEPT !.pc = "exited", !.exit_code = UsageExitCode]
    /\ UNCHANGED <<config, signals_caught, env, frame, web>>

\* the test of main's for loop
MoreRepetitions ==
    config.repetition_limit = 0 \/ main.repetition < config.repetition_limit

MainLoop ==
    /\ main.pc = "loop"
    /\ main' = [main EXCEPT !.pc = IF MoreRepetitions THEN "scan" ELSE "finalise"]
    /\ UNCHANGED <<config, signals_caught, env, frame, web>>

\* main, were it to leave the loop on the second signal only
StopScanning_AtSecond == ~main.scan_result \/ signals_caught > 1

\* main, were it to leave the loop only when scan returns false
StopScanning_Unsignalled == ~main.scan_result

\* if (!scan(pc) || signals_caught >= 1) break;
StopScanning == ~main.scan_result \/ signals_caught >= 1

AfterScan ==
    /\ main.pc = "scanned"
    /\ \/ /\ StopScanning
          /\ main' = [main EXCEPT !.pc = "finalise"]
       \/ /\ ~StopScanning
          /\ main.repetition < MaxRepetitions
          /\ main' = [main EXCEPT !.pc = "loop", !.repetition = @ + 1]
    /\ UNCHANGED <<config, signals_caught, env, frame, web>>

finalise_configuration(pc) == [pc EXCEPT !.stream = FALSE, !.device = FALSE]

FinaliseConfiguration ==
    /\ main.pc = "finalise"
    /\ config' = finalise_configuration(config)
    /\ main' = [main EXCEPT !.pc = "exit"]
    /\ UNCHANGED <<signals_caught, env, frame, web>>

Exit ==
    /\ main.pc = "exit"
    /\ main' = [main EXCEPT !.pc = "exited", !.exit_code = ExitCode]
    /\ UNCHANGED <<config, signals_caught, env, frame, web>>

(***************************************************************************)
(* scan, retune, flush_data_after_config_change, receive_block,            *)
(* process_buffer                                                          *)
(***************************************************************************)
\* scan returns to main
ScanReturns(result) ==
    main' = [main EXCEPT !.pc = "scanned", !.scan_result = result,
                         !.caught_at_tuning = 0]

\* SoapySDRDevice_setSampleRate, and the locals of scan
ScanStart ==
    /\ main.pc = "scan"
    /\ env' = [env EXCEPT !.sample_rate = config.sample_rate]
    /\ main' = [main EXCEPT !.pc = "tuning", !.i = 0, !.frequency = config.tuning_start]
    /\ frame' = [frame EXCEPT !.sweep = {}, !.framed = {}, !.failed = FALSE]
    /\ UNCHANGED <<config, signals_caught, web>>

\* scan, were it to abort on the third signal
ScanAborted_AtThird == signals_caught > 2

\* scan, were it to abort on the first signal
ScanAborted_AtFirst == signals_caught >= 1

\* if (signals_caught > 1) return false;
ScanAborted == signals_caught > 1

\* the head of the tuning loop
Tuning ==
    /\ main.pc = "tuning"
    /\ \/ /\ main.i >= config.tuning_count
          /\ ScanReturns(TRUE)
       \/ /\ main.i < config.tuning_count
          /\ ScanAborted
          /\ ScanReturns(FALSE)
       \/ /\ main.i < config.tuning_count
          /\ ~ScanAborted
          /\ main' = [main EXCEPT !.pc = "retune", !.caught_at_tuning = signals_caught]
    /\ UNCHANGED <<config, signals_caught, env, frame, web>>

\* retune, were it to store current_frequency as soon as the frequency is set
Retune_CommitsEarly ==
    /\ main.pc = "retune"
    /\ \/ /\ ScanReturns(TRUE)
          /\ env' = env
          /\ config' = config
          /\ frame' = [frame EXCEPT !.failed = TRUE]
       \/ /\ main' = [main EXCEPT !.pc = "flush", !.flush_i = 0]
          /\ env' = [env EXCEPT !.frequency = main.frequency]
          /\ config' = [config EXCEPT !.current_frequency = main.frequency]
          /\ frame' = frame
    /\ UNCHANGED <<signals_caught, web>>

\* retune, were scan to report a frequency that cannot be set as an abort
Retune_FailureAborts ==
    /\ main.pc = "retune"
    /\ \/ /\ ScanReturns(FALSE)
          /\ env' = env
          /\ frame' = [frame EXCEPT !.failed = TRUE]
       \/ /\ main' = [main EXCEPT !.pc = "flush", !.flush_i = 0]
          /\ env' = [env EXCEPT !.frequency = main.frequency]
          /\ frame' = frame
    /\ UNCHANGED <<config, signals_caught, web>>

\* retune: SoapySDRDevice_setFrequency; when it fails retune returns false
\* and scan leaves the tuning loop
Retune ==
    /\ main.pc = "retune"
    /\ \/ /\ ScanReturns(TRUE)
          /\ env' = env
          /\ frame' = [frame EXCEPT !.failed = TRUE]
       \/ /\ main' = [main EXCEPT !.pc = "flush", !.flush_i = 0]
          /\ env' = [env EXCEPT !.frequency = main.frequency]
          /\ frame' = frame
    /\ UNCHANGED <<config, signals_caught, web>>

\* last_time, and first_time if it is not set yet
Timestamp(pc, t) ==
    [pc EXCEPT !.last_time = t,
               !.first_time = IF pc.first_time = 0 THEN t ELSE pc.first_time]

\* the flush, were a failed read to end it at once
FlushFails_NoRetry ==
    /\ ScanReturns(TRUE)
    /\ frame' = [frame EXCEPT !.failed = TRUE]
    /\ UNCHANGED <<config, env, web>>

\* a read of flush_data_after_config_change fails: the next one is tried,
\* and after the last retune returns false and scan leaves the tuning loop
FlushFails ==
    /\ \/ /\ main.flush_i + 1 < FLUSH_READS
          /\ main' = [main EXCEPT !.flush_i = @ + 1]
       \/ /\ main.flush_i + 1 >= FLUSH_READS
          /\ ScanReturns(TRUE)
    /\ frame' = [frame EXCEPT !.failed = TRUE]
    /\ UNCHANGED <<config, env, web>>

\* a read succeeds and ends the flush: retune stores current_frequency and
\* returns true, and scan computes receive_end_time
FlushSucceeds(t) ==
    /\ StreamHasData
    /\ config' = [Timestamp(config, t) EXCEPT !.current_frequency = main.frequency]
    /\ main' = [main EXCEPT !.pc = "dwell", !.receive_end_time = t + config.dwell_time]
    /\ env' = [env EXCEPT !.reads = @ + 1]
    /\ frame' = frame

FlushWithin(times) ==
    /\ main.pc = "flush"
    /\ \/ FlushFails
       \/ \E t \in times : FlushSucceeds(t)
    /\ UNCHANGED <<signals_caught, web>>

Flush == FlushWithin(ReadTimes(config))

\* the loop, were it to step by half the tuning bandwidth
NextTuning_HalfStep ==
    main' = [main EXCEPT !.pc = "tuning", !.i = @ + 1,
                         !.frequency = @ + (config.tuning_bandwidth \div 2),
                         !.caught_at_tuning = 0]

\* i++, frequency += pc->tuning_bandwidth
NextTuning ==
    main' = [main EXCEPT !.pc = "tuning", !.i = @ + 1,
                         !.frequency = @ + config.tuning_bandwidth,
                         !.caught_at_tuning = 0]

\* receive_block up to the call of process_buffer
ReceiveBlock(t, n) ==
    /\ StreamHasData
    /\ config' = Timestamp(config, t)
    /\ main' = [main EXCEPT !.pc = "process", !.samples = n]
    /\ env' = [env EXCEPT !.reads = @ + 1]

\* the dwell, were a failed read to end the sweep
DwellWithin_AbandonsSweep(times, sizes) ==
    /\ main.pc = "dwell"
    /\ \/ /\ config.last_time >= main.receive_end_time
          /\ NextTuning
          /\ UNCHANGED <<config, env, frame, web>>
       \/ /\ config.last_time < main.receive_end_time
          /\ ScanReturns(TRUE)
          /\ frame' = [frame EXCEPT !.failed = TRUE]
          /\ UNCHANGED <<config, env, web>>
       \/ /\ config.last_time < main.receive_end_time
          /\ \E t \in times, n \in sizes : ReceiveBlock(t, n)
          /\ frame' = frame
    /\ UNCHANGED <<signals_caught, web>>

\* while (pc->last_time < receive_end_time) if (!receive_block(...)) break;
DwellWithin(times, sizes) ==
    /\ main.pc = "dwell"
    /\ \/ /\ config.last_time >= main.receive_end_time
          /\ NextTuning
          /\ UNCHANGED <<config, env, frame, web>>
       \/ /\ config.last_time < main.receive_end_time
          /\ NextTuning
          /\ frame' = [frame EXCEPT !.failed = TRUE]
          /\ UNCHANGED <<config, env, web>>
       \/ /\ config.last_time < main.receive_end_time
          /\ \E t \in times, n \in sizes : ReceiveBlock(t, n)
          /\ frame' = frame
    /\ UNCHANGED <<signals_caught, web>>

Dwell == DwellWithin(ReadTimes(config), BlockSizes)

\* process_buffer, were it to leave fft_fill alone when a frame is complete
ProcessBuffer_KeepsFill ==
    /\ main.pc = "process"
    /\ \/ /\ main.samples >= config.fft_size - config.fft_fill
          /\ \E sp \in Spectra, stale \in StaleValues(config) :
                /\ config' = handle_fft_out(config, sp, stale)
                /\ frame' = FrameRecord(config, sp, main.i, stale)
          /\ main' = [main EXCEPT !.samples = @ - (config.fft_size - config.fft_fill)]
       \/ /\ main.samples < config.fft_size - config.fft_fill
          /\ config' = [config EXCEPT !.fft_fill = @ + main.samples]
          /\ main' = [main EXCEPT !.pc = "dwell", !.samples = 0]
          /\ frame' = [frame EXCEPT
                          !.pairs = @ + main.samples,
                          !.from = IF config.fft_fill = 0 /\ main.samples > 0
                                   THEN config.current_frequency ELSE @]
    /\ UNCHANGED <<signals_caught, env, web>>

\* process_buffer, a frame at a time: the pairs that fill fftw_in, the
\* transform, handle_fft_out; then the pairs left over
ProcessBuffer ==
    /\ main.pc = "process"
    /\ \/ /\ main.samples >= config.fft_size - config.fft_fill
          /\ \E sp \in Spectra, stale \in StaleValues(config) :
                /\ config' = [handle_fft_out(config, sp, stale) EXCEPT !.fft_fill = 0]
                /\ frame' = FrameRecord(config, sp, main.i, stale)
          /\ main' = [main EXCEPT !.samples = @ - (config.fft_size - config.fft_fill)]
       \/ /\ main.samples < config.fft_size - config.fft_fill
          /\ config' = [config EXCEPT !.fft_fill = @ + main.samples]
          /\ main' = [main EXCEPT !.pc = "dwell", !.samples = 0]
          /\ frame' = [frame EXCEPT
                          !.pairs = @ + main.samples,
                          !.from = IF config.fft_fill = 0 /\ main.samples > 0
                                   THEN config.current_frequency ELSE @]
    /\ UNCHANGED <<signals_caught, env, web>>

(***************************************************************************)
(* The program                                                             *)
(***************************************************************************)
MainStep ==
    \/ GatherParameters
    \/ InitialiseConfiguration
    \/ Usage
    \/ MainLoop
    \/ ScanStart
    \/ Tuning
    \/ Retune
    \/ Flush
    \/ Dwell
    \/ ProcessBuffer
    \/ AfterScan
    \/ FinaliseConfiguration
    \/ Exit

Next == MainStep \/ Interrupt

Spec == Init /\ [][Next]_vars

(***************************************************************************)
(* The scans of a band of several tunings, from the moment main enters its *)
(* loop, when every read that succeeds reports a later time than the one   *)
(* before it and delivers one frame.  The main thread is the only thread   *)
(* of the program, and every call it makes returns: whenever it can take a *)
(* step it takes one in the end.                                           *)
(***************************************************************************)
\* what main holds when initialise_configuration has returned true
Initialised(sc) ==
    initialise_configuration(gather_parameters(ZeroConfiguration, sc.argv).pc, sc.device)

InitScanning ==
    /\ signals_caught = 0
    /\ frame = NoFrame
    /\ web = NoWebThread
    /\ \E sc \in Scenarios :
          /\ gather_parameters(ZeroConfiguration, sc.argv).ok
          /\ Initialised(sc).result = "ok"
          /\ Initialised(sc).pc.tuning_count > 1
          /\ Initialised(sc).pc.repetition_limit = 0
          /\ config = Initialised(sc).pc
          /\ env = [ argv |-> sc.argv, device |-> sc.device, handlers |-> TRUE,
                     divided_by_zero |-> Initialised(sc).fault,
                     reads |-> 0, sample_rate |-> 0, frequency |-> 0,
                     invalid_frequencies |->
                         gather_parameters(ZeroConfiguration, sc.argv).invalid ]
    /\ main = [ pc |-> "loop", initialised |-> "ok", repetition |-> 0,
                i |-> 0, frequency |-> 0, receive_end_time |-> 0,
                flush_i |-> 0, samples |-> 0, scan_result |-> TRUE,
                exit_code |-> -1, caught_at_tuning |-> 0 ]

FlushIncreasing == FlushWithin(IncreasingTimes(config))

DwellIncreasing == DwellWithin(IncreasingTimes(config), {PINNED_FFT_SIZE})

MainStepIncreasing ==
    \/ MainLoop
    \/ ScanStart
    \/ Tuning
    \/ Retune
    \/ FlushIncreasing
    \/ DwellIncreasing
    \/ ProcessBuffer
    \/ AfterScan
    \/ FinaliseConfiguration
    \/ Exit

NextIncreasing == MainStepIncreasing \/ Interrupt

FairSpec == InitScanning /\ [][NextIncreasing]_vars /\ WF_vars(MainStepIncreasing)

(***************************************************************************)
(* The planner on its own: initialise_configuration applied to the         *)
(* configurations gather_parameters can hand it, and to those with a       *)
(* sample rate limit in requested_sample_rate (the field case 'R' of the   *)
(* option switch fills), on the devices below.                             *)
(***************************************************************************)
\* a start frequency below half of every bandwidth
LowStart == 5

\* the shortest scan time whose microseconds pass INT_MAX
LongScanTime == INT_MAX \div 1000000 + 1

\* a rate of which three halves and three quarters are whole
EvenRate == 2 * PINNED_FFT_SIZE

PlanStarts == {0, LowStart, BandStart}

\* no end, an end not above the start, bands of 3/2 of a rate and wider
PlanEnds(start) ==
    {0, start - 1, start + (3 * WholeRate) \div 2, start + (3 * EvenRate) \div 2,
     start + 2 * OddRate}

PlanResolutions == {0, MIN_FFT_SIZE}

\* no limit, a limit below every rate, limits between the rates
PlanLimits == {0, 1, WholeRate, OddRate - 1}

PlanCrops == {DEFAULT_CROP_RATIO, <<0, 1, 0>>, <<1, 2, 0>>, <<3, 4, 0>>, <<-1, 4, 0>>}

PlanScanTimes == {DEFAULT_SCAN_TIME, LongScanTime}

PlanDevices ==
    {GoodDevice, OddDevice,
     Device(TRUE, <<PINNED_FFT_SIZE \div 2>>, 1, TRUE, TRUE),
     Device(TRUE, <<EvenRate>>, 1, TRUE, TRUE)}

PlanConfigurations ==
    { [default_parameters(ZeroConfiguration) EXCEPT
          !.start_frequency = start, !.end_frequency = end,
          !.frequency_resolution = res, !.requested_sample_rate = limit,
          !.crop_ratio = crop, !.scan_time = time] :
      start \in PlanStarts, end \in UNION {PlanEnds(st) : st \in PlanStarts},
      res \in PlanResolutions, limit \in PlanLimits, crop \in PlanCrops,
      time \in PlanScanTimes }

InitPlanning ==
    /\ config \in PlanConfigurations
    /\ signals_caught = 0
    /\ main = [ pc |-> "initialise", initialised |-> "", repetition |-> 0,
                i |-> 0, frequency |-> 0, receive_end_time |-> 0,
                flush_i |-> 0, samples |-> 0, scan_result |-> TRUE,
                exit_code |-> -1, caught_at_tuning |-> 0 ]
    /\ \E dev \in PlanDevices :
          env = [ argv |-> <<>>, device |-> dev,
                  handlers |-> FALSE, divided_by_zero |-> FALSE,
                  reads |-> 0, sample_rate |-> 0, frequency |-> 0,
                  invalid_frequencies |-> 0 ]
    /\ frame = NoFrame
    /\ web = NoWebThread

NextPlanning == InitialiseConfiguration \/ Usage

PlanSpec == InitPlanning /\ [][NextPlanning]_vars

(***************************************************************************)
(* Properties                                                              *)
(***************************************************************************)
\* finalise_configuration has run: the stream and the device are closed
Finalised == ~config.stream /\ ~config.device

\* the main thread takes a step (a signal handler's step leaves main alone)
MainSteps == main' # main

\* scan passes the head of a tuning and goes on to retune
PassesBoundary == main.pc = "tuning" /\ main'.pc = "retune"

\* C1 as stated: once signals_caught >= 1 the scan ends at the next tuning
\* boundary; it goes on to no further tuning of the sweep.
C1_EndsAtNextTuning ==
    [][PassesBoundary /\ main.i >= 1 => signals_caught = 0]_vars

\* C1, amended: with signals_caught = 1 the sweep goes on: at the head of
\* each remaining tuning scan retunes, and only signals_caught > 1 stops it
\* there; the scan ends at the end of the sweep, after which main starts no
\* other repetition.
C1_EndsAfterSweep ==
    [][ /\ (PassesBoundary => signals_caught <= 1)
        /\ (/\ main.pc = "tuning"
            /\ main.i < config.tuning_count
            /\ signals_caught = 1
            /\ MainSteps
            => main'.pc = "retune")
        /\ (main.pc = "scanned" /\ main'.pc = "loop" => signals_caught = 0)
      ]_vars

\* a tuning after the first is dwelling, the signal having been caught
\* before the scan came to the head of that tuning
C1_Witness ==
    main.pc = "dwell" /\ main.i >= 1 /\ main.caught_at_tuning = 1

\* C2 as stated: when the second signal has come during a tuning, no other
\* block is received for it: the next step of scan is to return false.
C2_AbortsImmediately ==
    [][ /\ main.pc \in {"dwell", "process"}
        /\ main.caught_at_tuning = 0
        /\ signals_caught > 1
        /\ MainSteps
        => main'.pc = "scanned" /\ ~main'.scan_result ]_vars

\* C2, amended: signals_caught > 1 is tested at the head of each tuning
\* only.  The dwell in progress is not cut short; at the head of the next
\* tuning scan returns false without retuning; after the last tuning of the
\* sweep it returns true; and it returns false in no other case.
C2_AbortsAtNextTuning ==
    [][ /\ (main.pc \in {"dwell", "process"} => main'.pc # "scanned")
        /\ (/\ main.pc = "tuning"
            /\ main.i < config.tuning_count
            /\ signals_caught > 1
            /\ MainSteps
            => main'.pc = "scanned" /\ ~main'.scan_result /\ env' = env)
        /\ (/\ main.pc = "tuning"
            /\ main.i >= config.tuning_count
            /\ MainSteps
            => main'.pc = "scanned" /\ main'.scan_result)
        /\ (main.pc # "scanned" /\ main'.pc = "scanned" /\ ~main'.scan_result
            => main.pc = "tuning" /\ signals_caught > 1)
      ]_vars

\* a block has been received for a tuning after two signals caught during
\* that tuning
C2_Witness ==
    main.pc = "process" /\ main.caught_at_tuning = 0 /\ signals_caught > 1

\* C3: in a continuous scan (repetition_limit = 0), once a signal has been
\* caught the program eventually leaves the repetition loop, runs
\* finalise_configuration and exits with status 0, every read returning and
\* the reads that succeed reporting strictly increasing times.
C3_InterruptedScanExits ==
    (config.repetition_limit = 0 /\ signals_caught >= 1)
        ~> (main.pc = "exited" /\ main.exit_code = 0 /\ Finalised)

\* a continuous scan that caught its signal in the middle of a dwell, has
\* been finalised and has exited
C3_Witness ==
    /\ config.repetition_limit = 0
    /\ signals_caught = 1
    /\ config.accumulation_count > 0
    /\ main.pc = "exited"
    /\ main.exit_code = 0
    /\ Finalised


\* C4 as stated: no repetition is started while signals_caught >= 1: scan
\* is not entered, so that no sample rate is set and nothing is retuned.
C4_NoRepetitionOnceSignalled ==
    [][main.pc = "scan" /\ main'.pc = "tuning" => signals_caught = 0]_vars

\* C4, amended: signals_caught >= 1 is tested after each sweep, not before.
\* After a sweep main starts another repetition only if scan returned true
\* and no signal has been caught; the start of a repetition depends on the
\* repetition count alone, and scan, once entered, sets the sample rate
\* and comes to the head of its first tuning whatever signals_caught is.
C4_TestedAfterEachSweep ==
    [][ /\ (main.pc = "scanned" /\ MainSteps
            => main'.pc = IF signals_caught >= 1 \/ ~main.scan_result
                          THEN "finalise" ELSE "loop")
        /\ (main.pc = "loop" /\ MainSteps
            => main'.pc = IF \/ config.repetition_limit = 0
                             \/ main.repetition < config.repetition_limit
                          THEN "scan" ELSE "finalise")
        /\ (main.pc = "scan" /\ MainSteps
            => main'.pc = "tuning" /\ env'.sample_rate = config.sample_rate)
      ]_vars

\* the first tuning of the first sweep has been retuned, the signal having
\* been caught before the scan came to the head of that tuning
C4_Witness ==
    /\ main.repetition = 0
    /\ main.i = 0
    /\ main.pc = "flush"
    /\ main.caught_at_tuning = 1
    /\ env.sample_rate = config.sample_rate
    /\ env.frequency = config.tuning_start

\* C5: the exit code is 0 on a clean exit and non-zero whenever
\* initialise_configuration has failed.
C5_ExitCodes ==
    main.pc = "exited" =>
        /\ (main.initialised = "ok" => main.exit_code = 0)
        /\ (main.initialised = "failed" => main.exit_code # 0)


\* process_buffer completes a frame and hands it to handle_fft_out
HandlesFrame ==
    /\ main.pc = "process"
    /\ main.samples >= config.fft_size - config.fft_fill
    /\ MainSteps

\* the range of bins handle_fft_out computes for the frame, and its test
FrameLowestBin ==
    CDiv(config.current_frequency - CDiv(config.tuning_bandwidth, 2)
            - config.start_frequency,
         config.frequency_resolution)

FrameBinCount == CDiv(config.tuning_bandwidth, config.frequency_resolution)

OutOfRange ==
    FrameLowestBin < 0 \/ FrameLowestBin + FrameBinCount > config.power_buckets

\* the elements of power_accumulation that the step changes, with those it
\* writes outside the array
Written ==
    { b \in DOMAIN config'.power_accumulation :
        \/ b \notin DOMAIN config.power_accumulation
        \/ config'.power_accumulation[b] # config.power_accumulation[b] }

\* C6: for every frame handed to handle_fft_out, each index written in
\* power_accumulation lies in [lowest_bin, lowest_bin + bin_count), a range
\* that lies inside [0, power_buckets); a frame whose range does not fit
\* writes nothing.
C6_WritesInsideRange ==
    [][ HandlesFrame =>
          /\ DOMAIN config'.power_accumulation = 0..(config.power_buckets - 1)
          /\ Written \subseteq FrameLowestBin..(FrameLowestBin + FrameBinCount - 1)
          /\ Written # {} =>
                /\ 0 <= FrameLowestBin
                /\ FrameLowestBin + FrameBinCount <= config.power_buckets
          /\ OutOfRange => Written = {}
      ]_vars

\* a frame of a tuning after the first has been written into the
\* accumulator, from the first bin of its range to the last
C6_Witness ==
    /\ frame.handled
    /\ frame.accepted
    /\ frame.lowest_bin > 0
    /\ frame.bin_count > 1
    /\ config.power_accumulation[frame.lowest_bin] > 0
    /\ config.power_accumulation[frame.lowest_bin + frame.bin_count - 1] > 0

\* C7: a frame whose lowest_bin is negative, or for which lowest_bin +
\* bin_count exceeds power_buckets, leaves every element of
\* power_accumulation unchanged and does not increment accumulation_count.
C7_DroppedFrameChangesNothing ==
    [][ HandlesFrame /\ OutOfRange =>
          /\ config'.power_accumulation = config.power_accumulation
          /\ config'.accumulation_count = config.accumulation_count
      ]_vars

\* the latest frame was dropped: its range ran past the last element
C7_Witness ==
    /\ frame.handled
    /\ ~frame.accepted
    /\ frame.lowest_bin + frame.bin_count > config.power_buckets

\* every frame accumulated so far was the same transform at the same tuning
SameFrames(fr) == fr.first # <<>> /\ fr.uniform

\* what one such frame adds to power_accumulation[b]
Contribution(pc, fr, b) ==
    LET at == [pc EXCEPT !.current_frequency = fr.first[1]]
        s  == b - LowestBin(at)
    IN  IF 0 <= s /\ s < BinCount(at)
        THEN FftPower(at, fr.first[2], s, fr.first[3]) ELSE 0

\* C8 as stated: the same frame accumulated N times from a zeroed
\* accumulator gives power_accumulation[i] = N times the single-frame
\* contribution, for every bin i.
C8_ExactMultiple ==
    SameFrames(frame) =>
        \A b \in DOMAIN config.power_accumulation :
            config.power_accumulation[b]
                = config.accumulation_count * Contribution(config, frame, b)

\* the sums of N equal frames: N times the contribution where that product
\* has no more than FLT_MANT_DIG significant bits, and within N units in
\* the last place of it where it has more
SumsOfSameFrames(pc, fr) ==
    \A b \in DOMAIN pc.power_accumulation :
        LET exact == pc.accumulation_count * Contribution(pc, fr, b)
        IN  IF exact < 2 ^ FLT_MANT_DIG
            THEN pc.power_accumulation[b] = exact
            ELSE Abs(pc.power_accumulation[b] - exact)
                    <= pc.accumulation_count * Ulp(exact, 1)

\* C8, amended: the same frame accumulated N times from a zeroed
\* accumulator gives accumulation_count = N and power_accumulation[i] =
\* N times the single-frame contribution up to the rounding of the float
\* additions (exactly, where the product fits the significand);
\* accumulation_count grows by exactly one per accepted frame, is changed
\* by nothing else, and never decreases.
C8_MultipleUpToRounding ==
    [][ /\ HandlesFrame /\ SameFrames(frame') => SumsOfSameFrames(config', frame')
        /\ config'.accumulation_count =
              IF HandlesFrame /\ ~OutOfRange
              THEN config.accumulation_count + 1
              ELSE config.accumulation_count
      ]_vars

\* three equal frames of large magnitudes have been accumulated, and a sum
\* has been rounded
C8_Witness ==
    /\ SameFrames(frame)
    /\ frame.first[2] = "loud"
    /\ config.accumulation_count >= 3
    /\ \E b \in DOMAIN config.power_accumulation :
          /\ Contribution(config, frame, b) > 0
          /\ config.power_accumulation[b]
                # config.accumulation_count * Contribution(config, frame, b)

\* the signed baseband offset of output bin k of the transform
BasebandOffset(k) ==
    IF 2 * k < config.fft_size
    THEN k * config.frequency_resolution
    ELSE (k - config.fft_size) * config.frequency_resolution

\* C9: for an accepted frame and every j in [0, bin_count), the value added
\* to power_accumulation[lowest_bin + j] is the magnitude of the output bin
\* whose signed baseband offset equals lowest_frequency_retained +
\* j * resolution - current_frequency.
C9_BinsOrderedByFrequency ==
    [][ HandlesFrame /\ ~OutOfRange =>
          \A j \in 0..(FrameBinCount - 1), k \in 0..(config.fft_size - 1) :
              BasebandOffset(k) = j * config.frequency_resolution
                                    - CDiv(config.tuning_bandwidth, 2)
              => config'.power_accumulation[FrameLowestBin + j]
                    = FloatAdd(config.power_accumulation[FrameLowestBin + j],
                               Magnitude(frame'.spectrum, k))
      ]_vars

\* C10: within one sweep the ranges [lowest_bin, lowest_bin + bin_count) of
\* two different tunings do not overlap.
C10_TuningsDisjoint ==
    \A a \in frame.sweep, b \in frame.sweep :
        a[1] # b[1] => a[2] + a[3] <= b[2] \/ b[2] + b[3] <= a[2]

\* frames of two tunings of one sweep have been accumulated
C10_Witness ==
    \E a \in frame.sweep, b \in frame.sweep :
        /\ a[1] # b[1]
        /\ a[3] > 0
        /\ b[3] > 0
        /\ config.power_accumulation[a[2]] > 0
        /\ config.power_accumulation[b[2]] > 0

(***************************************************************************)
(* Properties of the planner                                               *)
(***************************************************************************)
\* the step in which initialise_configuration runs: config is what it was
\* handed, config' what it left
PlanStep == main.pc = "initialise" /\ main'.pc # "initialise"

\* initialise_configuration has returned true
Planned == main.pc = "loop" /\ main.initialised = "ok"

IsPowerOfTwo(n) == \E k \in 0..FFT_MAX_BITS : n = 2 ^ k

\* C11: for any configuration with a positive start_frequency and a
\* non-empty device sample-rate set, planning completes without a division
\* by zero and yields tuning_count >= 1, fft_size a power of two in
\* [4, 65536] and power_buckets >= 1.
C11_PlanningCompletes ==
    [][ /\ PlanStep
        /\ config.start_frequency > 0
        /\ env.device.present
        /\ env.device.rates # <<>>
        => /\ main'.pc # "killed"
           /\ ~env'.divided_by_zero
           /\ main'.pc = "loop" =>
                 /\ config'.tuning_count >= 1
                 /\ IsPowerOfTwo(config'.fft_size)
                 /\ config'.fft_size >= MIN_FFT_SIZE
                 /\ config'.fft_size <= MAX_SAMPLES
                 /\ config'.power_buckets >= 1
      ]_vars

\* plan_tuning ran in the step: the device opened and a start was given
PlansTuning == PlanStep /\ env.device.present /\ config.start_frequency > 0

ThreeHalvesBand ==
    /\ PlansTuning
    /\ config.crop_ratio = DEFAULT_CROP_RATIO
    /\ 2 * (config.end_frequency - config.start_frequency) = 3 * config'.sample_rate

\* C13 as claimed: for a band of width 1.5 * sample_rate and crop_ratio
\* 0.25, the planner yields tuning_count = 2.
C13_TwoTunings ==
    [][ ThreeHalvesBand /\ config'.sample_rate > 0 => config'.tuning_count = 2 ]_vars

\* C13 amended: for a band of width 1.5 * sample_rate and crop_ratio 0.25
\* the planner yields tuning_count = 3 at every even sample rate of 8 or
\* more: the scan planned is a quarter of the rate wider than the band, and
\* 1.75 rates do not fit into two tunings of 0.75 of the rate.
C13_ThreeTunings ==
    [][ ThreeHalvesBand /\ config'.sample_rate >= 8 => config'.tuning_count = 3 ]_vars

\* such a band has been planned
C13_Witness ==
    /\ Planned
    /\ config.crop_ratio = DEFAULT_CROP_RATIO
    /\ config.sample_rate >= 8
    /\ 2 * (config.end_frequency - config.start_frequency) = 3 * config.sample_rate
    /\ config.tuning_count = 3

\* 1000000 * scan_time / tuning_count as the integers have it, in whole
\* millions and the rest, for a scan time that is not negative
DwellMillions(pc) == pc.scan_time \div pc.tuning_count

DwellRest(pc) == ((pc.scan_time % pc.tuning_count) * 1000000) \div pc.tuning_count

\* C14: for every scan_time and tuning_count, dwell_time equals
\* max(100000, 1000000 * scan_time / tuning_count), and is therefore
\* >= 100000 for every plan.
C14_DwellTime ==
    [][ /\ PlansTuning
        /\ config'.sample_rate > 0
        /\ config'.tuning_count >= 1
        /\ config'.scan_time >= 0
        =>
          /\ config'.dwell_time >= MIN_DWELL_TIME
          /\ IF DwellMillions(config') = 0 /\ DwellRest(config') < MIN_DWELL_TIME
             THEN config'.dwell_time = MIN_DWELL_TIME
             ELSE /\ config'.dwell_time \div 1000000 = DwellMillions(config')
                  /\ config'.dwell_time % 1000000 = DwellRest(config')
      ]_vars

\* the planner is handed no end frequency above the start, and derives the
\* band
DerivesBand == PlansTuning /\ config.end_frequency <= config.start_frequency

\* sample_rate * (1 - crop_ratio) as a fraction, for the crop the planner
\* settled on: numerator and denominator
UncroppedNum(pc) == pc.sample_rate * (pc.crop_ratio[2] - pc.crop_ratio[1])

UncroppedDen(pc) == pc.crop_ratio[2]

\* C15 as claimed: when no end frequency is given (or it is <= start), the
\* planned band satisfies end - start = sample_rate * (1 - crop_ratio) and
\* is centered on the start frequency the user gave.
C15_ExactCentredBand ==
    [][ DerivesBand =>
          /\ config'.crop_ratio[3] # 0 => config'.sample_rate = 0
          /\ (config'.end_frequency - config'.start_frequency) * UncroppedDen(config')
                = UncroppedNum(config')
          /\ config'.start_frequency + config'.end_frequency
                = 2 * config.start_frequency
      ]_vars

\* C15 amended: when no end frequency is given (or it is <= start), the
\* width end - start of the planned band is sample_rate * (1 - crop_ratio)
\* truncated to a whole number, and the band is centred on the start
\* frequency the user gave to within half a unit: the upper part
\* end - user start is half the width rounded down, the lower part
\* user start - start is the rest.
C15_TruncatedCentredBand ==
    [][ DerivesBand =>
          LET width == config'.end_frequency - config'.start_frequency
          IN  /\ width * UncroppedDen(config') <= UncroppedNum(config')
              /\ UncroppedNum(config') <= (width + 1) * UncroppedDen(config')
              /\ config'.crop_ratio[3] = 0
                    => UncroppedNum(config') < (width + 1) * UncroppedDen(config')
              /\ config'.crop_ratio[3] > 0 /\ UncroppedNum(config') > 0
                    => width * UncroppedDen(config') < UncroppedNum(config')
              /\ config'.end_frequency - config.start_frequency = width \div 2
              /\ config.start_frequency - config'.start_frequency
                    = width - width \div 2
      ]_vars

\* a derived band has been planned whose width is odd and is not the whole
\* of sample_rate * (1 - crop_ratio)
C15_Witness ==
    /\ Planned
    /\ config.end_frequency - config.start_frequency = DefaultBandwidth(config)
    /\ UncroppedNum(config) % UncroppedDen(config) # 0
    /\ (config.end_frequency - config.start_frequency) % 2 = 1

\* C16: after initialise_configuration succeeds, 0 <= start_frequency <
\* end_frequency holds, for every positive user start frequency, whether
\* the end frequency was given or auto-derived.
C16_BandOrdered ==
    [][ PlanStep /\ config.start_frequency > 0 /\ main'.pc = "loop" =>
          /\ 0 <= config'.start_frequency
          /\ config'.start_frequency < config'.end_frequency
      ]_vars

\* the device's rates that a limit admits
AdmittedRates(rates, limit) ==
    { rates[i] : i \in { j \in DOMAIN rates : limit = 0 \/ rates[j] <= limit } }

RoundUpPow2(rate, resolution) ==
    LET fits == { k \in 0..FFT_MAX_BITS : (2 ^ k) * resolution >= rate }
        k    == IF fits = {} THEN FFT_MAX_BITS
                ELSE CHOOSE j \in fits : \A i \in fits : j <= i
    IN  IF 2 ^ k < MIN_FFT_SIZE THEN MIN_FFT_SIZE ELSE 2 ^ k

\* C18: fft_size is driven by the resolution: it equals sample_rate /
\* frequency_resolution rounded up to a power of two and clamped into
\* [4, 65536], for every sample rate and every requested resolution.
C18_FftSizeFollowsResolution ==
    [][ PlansTuning /\ main'.pc = "loop" /\ config'.sample_rate > 0 =>
          config'.fft_size
             = RoundUpPow2(config'.sample_rate,
                           InitialResolution([config EXCEPT
                               !.sample_rate = config'.sample_rate]))
      ]_vars

(***************************************************************************)
(* Properties of the command line                                          *)
(***************************************************************************)
\* the options the usage text offers, other than the request for help
OfferedOptions == (KnownOptions \cup {"R"}) \ {"a", "h", "?"}

\* a command line of offered options, none of them a request for the
\* device list, is being read
ReadsOfferedOptions ==
    /\ main.pc = "gather"
    /\ \A i \in DOMAIN env.argv :
          /\ env.argv[i].opt \in OfferedOptions
          /\ env.argv[i].opt = "d" => env.argv[i].arg # "help"

\* C19: the command line accepts -R with a frequency argument and stores it
\* as the sample-rate upper limit (requested_sample_rate), instead of
\* treating it as an unknown option.
C19_AcceptsRateLimit ==
    [][ ReadsOfferedOptions =>
          \A i \in DOMAIN env.argv :
              /\ env.argv[i].opt = "R"
              /\ \A j \in DOMAIN env.argv : j > i => env.argv[j].opt # "R"
              => /\ main'.pc = "initialise"
                 /\ config'.requested_sample_rate
                       = frequency_from_str(env.argv[i].arg).value
      ]_vars

\* the command line being read is one frequency, given as the end
ReadsOneFrequency ==
    main.pc = "gather" /\ Len(env.argv) = 1 /\ env.argv[1].opt = "e"

\* C20: frequency_from_str accepts a number followed by nothing or by
\* exactly one of k K m M g G (multiplying by 1, 10^3, 10^6, 10^9) and
\* rejects, returning 0 and reporting an error, every string that has any
\* other trailing character after the number, including characters that
\* follow a valid suffix.
C20_RejectsTrailingCharacters ==
    [][ ReadsOneFrequency =>
          /\ config'.end_frequency = FrequencyLiteral(env.argv[1].arg).value
          /\ env'.invalid_frequencies
                = IF FrequencyLiteral(env.argv[1].arg).invalid THEN 1 ELSE 0
      ]_vars

(***************************************************************************)
(* webserver.cpp: the web thread beside the main thread.  main calls       *)
(* setup_webserver before its scans and stop_webserver during shutdown,    *)
(* ahead of finalise_configuration; exit ends the web thread with the      *)
(* process.                                                                *)
(***************************************************************************)
WebPort == 8080

\* new std::thread, unless no port was asked for
setup_webserver(w, pc) ==
    IF pc.web_port = 0 THEN w ELSE [w EXCEPT !.thread = "started"]

\* Server::stop ends a listen in progress
stop_webserver(w) ==
    IF w.server
    THEN [w EXCEPT !.stopped = TRUE, !.listening = FALSE, !.server = FALSE]
    ELSE w

SetupWebserver ==
    /\ main.pc = "setup_webserver"
    /\ main' = [main EXCEPT !.pc = "loop"]
    /\ web' = setup_webserver(web, config)
    /\ UNCHANGED <<config, signals_caught, env, frame>>

StopWebserver ==
    /\ main.pc = "finalise"
    /\ ~web.stop_called
    /\ web' = [stop_webserver(web) EXCEPT !.stop_called = TRUE]
    /\ UNCHANGED <<config, signals_caught, main, env, frame>>

\* the process is running: the web thread can take a step
WebThreadAt(place) == web.thread = place /\ main.pc # "exited"

\* server = new Server
WebCreate ==
    /\ WebThreadAt("started")
    /\ web' = [web EXCEPT !.thread = "created", !.server = TRUE]
    /\ UNCHANGED <<config, signals_caught, main, env, frame>>

\* is_valid fails, or the handlers are set and ./public is mounted or not
WebConfigure ==
    /\ WebThreadAt("created")
    /\ \E next \in {"done", "mounted"} : web' = [web EXCEPT !.thread = next]
    /\ UNCHANGED <<config, signals_caught, main, env, frame>>

\* listen is entered; a stop made before it is lost or makes listen return
\* at once, as the library has it
WebListen ==
    /\ WebThreadAt("mounted")
    /\ \/ web' = [web EXCEPT !.thread = "listening", !.listening = TRUE]
       \/ web.stopped /\ web' = [web EXCEPT !.thread = "listening"]
    /\ UNCHANGED <<config, signals_caught, main, env, frame>>

\* listen has returned: "webserver done"
WebDone ==
    /\ WebThreadAt("listening")
    /\ ~web.listening
    /\ web' = [web EXCEPT !.thread = "finished"]
    /\ UNCHANGED <<config, signals_caught, main, env, frame>>

WebStep == WebCreate \/ WebConfigure \/ WebListen \/ WebDone

InitWeb ==
    /\ signals_caught = 0
    /\ frame = NoFrame
    /\ web = NoWebThread
    /\ \E sc \in Scenarios, port \in {0, WebPort} :
          /\ gather_parameters(ZeroConfiguration, sc.argv).ok
          /\ Initialised(sc).result = "ok"
          /\ ~Initialised(sc).fault
          /\ Initialised(sc).pc.repetition_limit = 1
          /\ config = [Initialised(sc).pc EXCEPT !.web_port = port]
          /\ env = [ argv |-> sc.argv, device |-> sc.device, handlers |-> TRUE,
                     divided_by_zero |-> FALSE,
                     reads |-> 0, sample_rate |-> 0, frequency |-> 0,
                     invalid_frequencies |-> 0 ]
    /\ main = [ pc |-> "setup_webserver", initialised |-> "ok", repetition |-> 0,
                i |-> 0, frequency |-> 0, receive_end_time |-> 0,
                flush_i |-> 0, samples |-> 0, scan_result |-> TRUE,
                exit_code |-> -1, caught_at_tuning |-> 0 ]

\* main's steps, stop_webserver coming before finalise_configuration
WebMainStep ==
    \/ SetupWebserver
    \/ StopWebserver
    \/ (main.pc = "finalise" => web.stop_called) /\ MainStepIncreasing

NextWeb == WebMainStep \/ WebStep \/ Interrupt

WebSpec == InitWeb /\ [][NextWeb]_vars

\* C21: whenever stop_webserver is invoked during shutdown after
\* setup_webserver started the web thread, the serving loop returns (the
\* web thread leaves listen), under every interleaving of the main thread
\* and the web thread: once stop_webserver has been called, the web thread
\* has ended or its server has been stopped, so that no listen is left
\* that nothing will end.
C21_StopEndsServing ==
    web.stop_called /\ web.thread # "none" =>
        web.thread \in {"done", "finished"} \/ (web.stopped /\ ~web.listening)

\* C22: after a successful set_frequency the tuner performs at most three
\* discard reads: it becomes ready at the first read that returns >= 0 and
\* performs no further discard read after it, and retune fails exactly when
\* three consecutive reads fail.  main.flush_i counts the reads of the
\* flush that failed; a step of main at "flush" is one discard read.
C22_FlushReads ==
    [][main.pc = "flush" /\ main' # main =>
         /\ main.flush_i < FLUSH_READS
         /\ \/ /\ env'.reads = env.reads + 1
               /\ main'.pc = "dwell"
               /\ main'.flush_i = main.flush_i
            \/ /\ env'.reads = env.reads
               /\ main.flush_i + 1 < FLUSH_READS
               /\ main'.pc = "flush"
               /\ main'.flush_i = main.flush_i + 1
            \/ /\ env'.reads = env.reads
               /\ main.flush_i + 1 = FLUSH_READS
               /\ main'.pc = "scanned"
               /\ main'.scan_result]_vars

\* the tuner became ready at its third discard read
C22_Witness == main.pc = "dwell" /\ main.flush_i = FLUSH_READS - 1

\* C23: current_frequency changes only when a retune reaches Ready: a
\* retune whose set_frequency fails or whose three flush reads all fail
\* leaves current_frequency at its previous value, and no other operation
\* writes it.  The only step that changes it is the flush read that
\* succeeds, which stores the frequency the tuning asked for.
C23_CommittedWhenReady ==
    [][config'.current_frequency # config.current_frequency =>
         /\ main.pc = "flush"
         /\ main'.pc = "dwell"
         /\ env'.reads = env.reads + 1
         /\ config'.current_frequency = main.frequency]_vars

\* a retune after the first tuning failed, and current_frequency is still
\* the frequency of an earlier tuning
C23_Witness ==
    /\ main.pc = "scanned"
    /\ main.scan_result
    /\ main.i > 0
    /\ main.i < config.tuning_count
    /\ config.current_frequency # 0
    /\ config.current_frequency # main.frequency

\* C24: on a successful retune last_time equals the timestamp of the first
\* successful flush read; first_time is set by the very first successful
\* read of the process and keeps that value for every later read, whatever
\* timestamps the reads carry.  env.reads counts the reads that succeeded.
C24_FirstTimeKept ==
    [][/\ env.reads = 0 /\ env'.reads = 1 =>
              config'.first_time = config'.last_time
       /\ main.pc = "flush" /\ main'.pc = "dwell" =>
              main'.receive_end_time = config'.last_time + config.dwell_time
       /\ env.reads > 0 => config'.first_time = config.first_time]_vars

\* C25: a failed block read during a tuning's dwell abandons only that
\* tuning: no further block is read for it, the accumulator and fill index
\* are left as they were before the failed read, and the scan loop advances
\* to the next tuning of the same sweep.  The dwell is left before its end
\* time only by a read that failed.
C25_FailedReadSkipsTuning ==
    [][/\ main.pc = "dwell"
       /\ config.last_time < main.receive_end_time
       /\ main'.pc # "process"
       /\ main' # main
       => /\ main'.pc = "tuning"
          /\ main'.i = main.i + 1
          /\ main'.frequency = main.frequency + config.tuning_bandwidth
          /\ main'.repetition = main.repetition
          /\ env'.reads = env.reads
          /\ config' = config]_vars

\* a dwell that had stored pairs was left by a failed read
C25_Witness ==
    /\ main.pc = "tuning"
    /\ main.i > 0
    /\ config.last_time < main.receive_end_time
    /\ config.fft_fill > 0

\* C26: when retune fails for a tuning, no block is acquired for it and the
\* outer loop advances: scan reports success (not aborted) to main, and
\* with no signal caught the next repetition starts again from
\* tuning_start, the failed sweep counting as one repetition.
C26_FailedRetuneEndsSweep ==
    [][/\ main.pc \in {"retune", "flush"} /\ main'.pc = "scanned" =>
              /\ main'.scan_result
              /\ env'.reads = env.reads
              /\ config' = config
       /\ main.pc = "scanned" /\ main.scan_result /\ signals_caught = 0
          /\ main' # main =>
              /\ main'.pc = "loop"
              /\ main'.repetition = main.repetition + 1
       /\ main.pc = "scan" /\ main' # main =>
              /\ main'.pc = "tuning"
              /\ main'.i = 0
              /\ main'.frequency = config.tuning_start]_vars

\* the first retune of the first sweep failed, and the second repetition
\* is at its first tuning
C26_Witness ==
    /\ main.repetition = 1
    /\ main.pc = "tuning"
    /\ main.i = 0
    /\ main.frequency = config.tuning_start
    /\ config.tuning_count > 0
    /\ env.reads = 0
    /\ signals_caught = 0

(***************************************************************************)
(* The scans when a read delivers a block of any size: none, a pair, a     *)
(* frame less or more a pair, and the several frames of a larger buffer.   *)
(***************************************************************************)
\* the frames of the largest block read
FramesPerBuffer == 2

BufferSizes ==
    {0, 1, PINNED_FFT_SIZE - 1, PINNED_FFT_SIZE + 1,
     FramesPerBuffer * PINNED_FFT_SIZE + 1}

DwellBuffers == DwellWithin(IncreasingTimes(config), BufferSizes)

NextBuffers ==
    \/ MainLoop
    \/ ScanStart
    \/ Tuning
    \/ Retune
    \/ FlushIncreasing
    \/ DwellBuffers
    \/ ProcessBuffer
    \/ AfterScan

BufferSpec == InitScanning /\ [][NextBuffers]_vars

\* C27: across any sequence of received blocks of any sizes, after n sample
\* pairs in total exactly floor(n / fft_size) frames have been delivered to
\* handle_fft_out, fft_fill equals n mod fft_size, and
\* 0 <= fft_fill < fft_size holds whenever a sample is stored, frames being
\* delivered in the order they complete.  frame.pairs counts the pairs
\* stored and frame.delivered the calls of handle_fft_out.
C27_FramesPerPairs ==
    /\ frame.delivered = frame.pairs \div config.fft_size
    /\ config.fft_fill = frame.pairs % config.fft_size
    /\ 0 <= config.fft_fill
    /\ config.fft_fill < config.fft_size

\* a block of several frames is being processed with pairs left over from
\* the block before it
C27_Witness ==
    /\ main.pc = "process"
    /\ main.samples > config.fft_size
    /\ frame.delivered >= 2
    /\ config.fft_fill > 0

\* C28: every FFT frame delivered to the accumulator is built only from
\* sample pairs received after the most recent successful retune, i.e. at
\* current_frequency: no frame mixes pairs acquired at two different
\* tunings, across any sequence of retunes and block reads.
C28_FrameOfOneTuning == frame.handled => ~frame.mixed

\* C29: for every accepted frame, every index s read from fft_power during
\* accumulation satisfies 0 <= s < fft_size - 1, i.e. bin_count =
\* tuning_bandwidth / frequency_resolution never exceeds the fft_size - 1
\* magnitudes that the frame wrote, for every sample rate and crop ratio in
\* [0, 0.6].
C29_ReadsWrittenPowers ==
    frame.handled /\ frame.accepted =>
        \A s \in 0..(frame.bin_count - 1) : s < config.fft_size - 1

(***************************************************************************)
(* The program run on a band that is not a whole number of tunings wide,   *)
(* and on a band of two tunings with nothing cropped.                      *)
(***************************************************************************)
\* the help text; a band a tuning and a quarter wide, so that two tunings
\* are planned at the default crop ratio; a band of two sample rates with
\* the crop ratio 0
SweepScenarios ==
    { Scenario(<<Opt("h", 0)>>, GoodDevice),
      Scenario(<<Opt("s", Decimal(BandStart)), Opt("e", Decimal(BandStart + 2 * WholeRate)),
                 Opt("c", <<0, 1, 0>>)>>, GoodDevice),
      Scenario(<<Opt("s", Decimal(BandStart)),
                 Opt("e", Decimal(BandStart + WholeRate + WholeRate \div 4))>>,
               GoodDevice) }

InitSweep ==
    /\ config = ZeroConfiguration
    /\ signals_caught = 0
    /\ main = [ pc |-> "gather", initialised |-> "", repetition |-> 0,
                i |-> 0, frequency |-> 0, receive_end_time |-> 0,
                flush_i |-> 0, samples |-> 0, scan_result |-> TRUE,
                exit_code |-> -1, caught_at_tuning |-> 0 ]
    /\ \E sc \in SweepScenarios :
          env = [ argv |-> sc.argv, device |-> sc.device,
                  handlers |-> FALSE, divided_by_zero |-> FALSE,
                  reads |-> 0, sample_rate |-> 0, frequency |-> 0,
                  invalid_frequencies |-> 0 ]
    /\ frame = NoFrame
    /\ web = NoWebThread

SweepSpec == InitSweep /\ [][Next]_vars

\* C30: after one sweep in which every retune and every read succeeds and
\* every tuning completes at least one FFT frame, every index of
\* power_accumulation in [0, power_buckets) has been added to at least
\* once, so the accumulated spectrum covers the whole of
\* [start_frequency, end_frequency).  Stated of the first sweep, whose
\* accumulator starts at zero: frame.sweep holds the ranges it added to.
C30_SweepCoversBand ==
    /\ main.pc = "scanned"
    /\ main.repetition = 0
    /\ ~frame.failed
    /\ config.tuning_count > 0
    /\ frame.framed = 0..(config.tuning_count - 1)
    => \A b \in 0..(config.power_buckets - 1) :
          \E w \in frame.sweep : w[2] <= b /\ b < w[2] + w[3]

====
